---------------------------- MODULE Spec2Model ----------------------------
(***************************************************************************)
(* smart-volume-adjust.py: one invocation parses its arguments, lists the  *)
(* sink inputs of the audio server, orders them by the priority of the     *)
(* patterns their client names match, picks one (optionally the first that *)
(* is audible), adds volume_change to its volume (or to the default sink's *)
(* volume) and optionally shows a notification.                            *)
(*                                                                         *)
(* Strings are sequences of one-character strings.  Volumes and volume     *)
(* changes are counted in hundredths (1.0 is 100).  None is the empty      *)
(* sequence and a present value x is <<x>>.  The audio server, the peak    *)
(* probe and the notification daemon are the script's environment: the     *)
(* server holds the volumes it is given, a probe returns any sample, the   *)
(* daemon numbers new notifications.  What --verbose prints is left out.   *)
(***************************************************************************)
EXTENDS Integers, Sequences, FiniteSets, TLC

\* The fields of the model's records.  TLC orders the fields of a record by
\* their first occurrence in the module, and the records below list their
\* fields in this order.
Fields == [client |-> "sink input: its client", connected |-> "io: Pulse() was called", corked |-> "sink input: paused", daemon_next_id |-> "pre: the daemon's next id",
           default_to_sink |-> "args", dry_run |-> "args", exists |-> "file: it exists", exit_code |-> "io: None while running", file |-> "notification: its id file",
           files |-> "the id files", filter_active |-> "args", filtered |-> "filter: matched so far", id |-> "notification: its id", index |-> "sink input, sink: its index",
           input_sinks_patterns |-> "args", listed |-> "io: calls of sink_input_list", name |-> "client, sink: its name", next_id |-> "the daemon's next id",
           notify |-> "args", notify_absolute |-> "args", ok |-> "conversion: no ValueError", peak |-> "probe: the sample", probes |-> "io: calls of get_peak_sample",
           reads |-> "io: id files read", sets |-> "io: calls of the volume setters", shown |-> "io: notifications shown", sink_input_list |-> "pre: the sink inputs",
           sink_inputs |-> "filter: not matched yet", sink_list |-> "pre: the sinks", stderr |-> "io: lines on stderr", stdout |-> "io: lines on stdout",
           target |-> "set: whose volume", text |-> "file: its content", title |-> "notification: its title", value |-> "conversion: the number",
           value_flat |-> "volume: its level", volume |-> "sink input, sink, set: a volume", volume_change |-> "args", writes |-> "io: id files written"]

None == << >>

Some(x) == <<x>>

\* ------------------------------------------------------------------ bounds

\* invocations of the script executed one after another
MaxInvocations == 2

\* longest pattern list and longest sink input list of the filter's own check
MaxPatterns == 2

MaxStreams == 3

\* ------------------------------------------------------ strings and numbers

Digits == {"0", "1", "2", "3", "4", "5", "6", "7", "8", "9"}

DigitValue(c) == CASE c = "0" -> 0 [] c = "1" -> 1 [] c = "2" -> 2 [] c = "3" -> 3 [] c = "4" -> 4 [] c = "5" -> 5 [] c = "6" -> 6 [] c = "7" -> 7 [] c = "8" -> 8 [] c = "9" -> 9

DigitChar(d) == CASE d = 0 -> "0" [] d = 1 -> "1" [] d = 2 -> "2" [] d = 3 -> "3" [] d = 4 -> "4" [] d = 5 -> "5" [] d = 6 -> "6" [] d = 7 -> "7" [] d = 8 -> "8" [] d = 9 -> "9"

AllDigits(s) == \A i \in 1..Len(s) : s[i] \in Digits

RECURSIVE DecimalValue(_)
\* the number a sequence of digits denotes (0 for the empty sequence)
DecimalValue(s) == IF s = << >> THEN 0 ELSE 10 * DecimalValue(SubSeq(s, 1, Len(s) - 1)) + DigitValue(s[Len(s)])

\* s without a leading sign
Unsigned(s) == IF s # << >> /\ s[1] \in {"-", "+"} THEN Tail(s) ELSE s

Negative(s) == s # << >> /\ s[1] = "-"

DotPositions(s) == {i \in 1..Len(s) : s[i] = "."}

\* the digits of the fraction, as hundredths (".5" is 50, ".05" is 5)
Hundredths(frac) == IF frac = << >> THEN 0 ELSE IF Len(frac) = 1 THEN 10 * DigitValue(frac[1]) ELSE DecimalValue(SubSeq(frac, 1, 2))

\* float(): [ok |-> FALSE] is ValueError.  Over signs, digits, dots and
\* other characters a string is a float literal when, after an optional
\* sign, it is digits with at most one dot and at least one digit.
float(s) ==
    LET body == Unsigned(s)
        dots == DotPositions(body)
        dot  == IF dots = {} THEN Len(body) + 1 ELSE CHOOSE i \in dots : TRUE
        whole == SubSeq(body, 1, dot - 1)
        frac  == SubSeq(body, dot + 1, Len(body))
        magnitude == 100 * DecimalValue(whole) + Hundredths(frac)
    IN  IF Cardinality(dots) <= 1 /\ AllDigits(whole) /\ AllDigits(frac) /\ Len(whole) + Len(frac) >= 1
        THEN [ok |-> TRUE, value |-> IF Negative(s) THEN 0 - magnitude ELSE magnitude]
        ELSE [ok |-> FALSE, value |-> 0]

\* int() of a file's text: [ok |-> FALSE] is ValueError
int(s) ==
    LET body == Unsigned(s)
    IN  IF body # << >> /\ AllDigits(body)
        THEN [ok |-> TRUE, value |-> IF Negative(s) THEN 0 - DecimalValue(body) ELSE DecimalValue(body)]
        ELSE [ok |-> FALSE, value |-> 0]

RECURSIVE str(_)
\* str() of a natural number
str(n) == IF n < 10 THEN <<DigitChar(n)>> ELSE Append(str(n \div 10), DigitChar(n % 10))

\* re.match(pattern, string) for patterns of literal characters and ".":
\* the pattern has to match at the start of the string, not all of it
re_match(pattern, string) == Len(pattern) <= Len(string) /\ \A i \in 1..Len(pattern) : pattern[i] = "." \/ pattern[i] = string[i]

\* ------------------------------------------------------- the audio server

\* pulse.client_info(client).name of the clients connected to the server
client_info(client) == [name |-> CASE client = 1 -> <<"a", "b">> [] client = 2 -> <<"b">> [] client = 3 -> <<"a">>]

Clients == {1, 2, 3}

pulse_client_name(sink_input) == client_info(sink_input.client).name

\* a sink input as pulse.sink_input_list() reports it
SinkInput(index, client, corked, value_flat) == [client |-> client, corked |-> corked, index |-> index, volume |-> [value_flat |-> value_flat]]

\* the regex patterns given on the command line
Patterns == {<< >>, <<"a">>, <<"b">>, <<".", "b">>}

\* what get_peak_sample can return: silence or some level
PeakSamples == {0, 30}

\* the notification id files: /tmp/smart-volume-adjust-sinkinput-<index> and
\* /tmp/smart-volume-adjust-sink-<index>
sinkinput_id_file(index) == <<"sinkinput", index>>

sink_id_file(index) == <<"sink", index>>

NoFile == [exists |-> FALSE, text |-> << >>]

FileWith(text) == [exists |-> TRUE, text |-> text]

VARIABLES
    pc,                   \* where the invocation is: "shell", "parse", "main", "scan", "change", "exited"
    args,                 \* the parsed command line (argparse's namespace)
    volume_change,        \* args.volume_change after float()
    sink_input_list,      \* the server's sink inputs, in the server's order
    sink_list,            \* the server's sinks
    default_sink_name,    \* server_info().default_sink_name
    gi,                   \* whether the notification library can be imported
    files,                \* the notification id files under /tmp
    daemon_next_id,       \* the id the notification daemon gives the next new notification
    sink_inputs_filtered, \* main's local
    sink_input_to_change, \* main's local: None or Some(sink input)
    scan,                 \* sink_input_with_sound's position in priority_sink_inputs
    io,                   \* what this invocation did to the outside: calls, output, exit code
    runs,                 \* invocations started so far
    pre,                  \* the server and the files as this invocation found them
    applied,              \* per target, the sum of the volume_change arguments of the invocations without --dry-run that chose it
    ids_used              \* per id file, the ids of the notifications shown with it

vars == <<pc, args, volume_change, sink_input_list, sink_list, default_sink_name, gi, files, daemon_next_id, sink_inputs_filtered, sink_input_to_change, scan, io, runs, pre, applied, ids_used>>

server_vars == <<sink_input_list, sink_list, default_sink_name>>

desktop_vars == <<gi, files, daemon_next_id, ids_used>>

\* nothing done yet
NoIO == [connected |-> FALSE, exit_code |-> None, listed |-> 0, probes |-> << >>, reads |-> {}, sets |-> << >>, shown |-> << >>, stderr |-> << >>, stdout |-> << >>, writes |-> {}]

\* ------------------------------------------------------ sink_inputs_filter

\* list.pop(i) with i counted from 1
Pop(list, i) == SubSeq(list, 1, i - 1) \o SubSeq(list, i + 1, Len(list))

\* a matched sink input is left in the list of those still to match
RemainingKeepsMatched(sink_inputs, idx, removed_count) == sink_inputs

\* sink_inputs after sink_inputs.pop(idx - removed_count)
Remaining(sink_inputs, idx, removed_count) == Pop(sink_inputs, idx - removed_count)

RECURSIVE PatternLoop(_, _, _, _, _, _)
\* the inner loop, from position idx of the copy sink_inputs[:]
PatternLoop(pattern, copy, idx, sink_inputs, filtered, removed_count) ==
    IF idx > Len(copy) THEN [filtered |-> filtered, sink_inputs |-> sink_inputs]
    ELSE IF re_match(pattern, pulse_client_name(copy[idx]))
         THEN PatternLoop(pattern, copy, idx + 1, Remaining(sink_inputs, idx, removed_count), Append(filtered, copy[idx]), removed_count + 1)
         ELSE PatternLoop(pattern, copy, idx + 1, sink_inputs, filtered, removed_count)

RECURSIVE PatternsLoop(_, _, _, _)
\* the outer loop, from pattern number p
PatternsLoop(patterns, p, sink_inputs, filtered) ==
    IF p > Len(patterns) THEN filtered
    ELSE LET r == PatternLoop(patterns[p], sink_inputs, 1, sink_inputs, filtered, 0)
         IN  PatternsLoop(patterns, p + 1, r.sink_inputs, r.filtered)

sink_inputs_filter(listed, sink_inputs_patterns) == PatternsLoop(sink_inputs_patterns, 1, listed, << >>)

\* ------------------------------------------------------------------ notify

\* the ModuleNotFoundError is not caught as a missing library
LibraryMissingIgnored(library) == FALSE

\* the import of gi fails with ModuleNotFoundError
LibraryMissing(library) == ~library

\* notification_id after the id file was read: None when there is no file
\* or int() raises ValueError
notification_id_of(file) == IF file.exists /\ int(file.text).ok THEN Some(int(file.text).value) ELSE None

\* int(Path(...).read_text()) raised ValueError
Malformed(file) == file.exists /\ ~int(file.text).ok

\* "if notification_id:" is false for None and for 0
Truthy(notification_id) == notification_id # None /\ notification_id[1] # 0

\* the id file is written only when it did not exist
ShouldWriteOnlyWhenAbsent(notification_id, file) == ~file.exists

\* "if not notification_id and notification_id_file:"
ShouldWrite(notification_id, file) == ~Truthy(notification_id)

\* the id read from the file is not put on the notification
ShownIdAlwaysNew(notification_id, next_id) == next_id

\* n.get_property("id") after n.show(): the id set from the file, or the one
\* the daemon gives a new notification
ShownId(notification_id, next_id) == IF Truthy(notification_id) THEN notification_id[1] ELSE next_id

\* notify() without an id file (--notify without --notify-absolute)
notify_plain(title, library, fs, next_id) ==
    IF LibraryMissing(library)
    THEN [files |-> fs, next_id |-> next_id, reads |-> {}, shown |-> << >>, stderr |-> <<"notification went wrong">>, writes |-> {}]
    ELSE [files |-> fs, next_id |-> next_id + 1, reads |-> {}, shown |-> <<[file |-> None, id |-> next_id, title |-> title]>>, stderr |-> << >>, writes |-> {}]

\* notify() with the id file path (--notify --notify-absolute)
notify_file(title, path, library, fs, next_id) ==
    LET notification_id == notification_id_of(fs[path])
        id == ShownId(notification_id, next_id)
        write == ShouldWrite(notification_id, fs[path])
    IN  IF LibraryMissing(library)
        THEN [files |-> fs, next_id |-> next_id, reads |-> {}, shown |-> << >>, stderr |-> <<"notification went wrong">>, writes |-> {}]
        ELSE [files |-> IF write THEN [fs EXCEPT ![path] = FileWith(str(id))] ELSE fs,
              next_id |-> IF Truthy(notification_id) THEN next_id ELSE next_id + 1,
              reads |-> {path},
              shown |-> <<[file |-> Some(path), id |-> id, title |-> title]>>,
              stderr |-> IF Malformed(fs[path]) THEN <<"notification id file malformated">> ELSE << >>,
              writes |-> IF write THEN {path} ELSE {}]

\* the call of notify() in change_volume, or no call without --notify
notify(a, title, path, library, fs, next_id) ==
    IF ~a.notify THEN [files |-> fs, next_id |-> next_id, reads |-> {}, shown |-> << >>, stderr |-> << >>, writes |-> {}]
    ELSE IF a.notify_absolute THEN notify_file(title, path, library, fs, next_id)
    ELSE notify_plain(title, library, fs, next_id)

\* ids_used after the notifications in shown
IdsUsedAfter(used, shown) == [p \in DOMAIN used |-> used[p] \cup {shown[i].id : i \in {j \in 1..Len(shown) : shown[j].file = Some(p)}}]

\* ------------------------------------------------------------- the server's calls

\* the volume is set on every sink input
sink_input_volume_set_all(listed, index, volume) == [i \in DOMAIN listed |-> [listed[i] EXCEPT !.volume = volume]]

\* the server's sink inputs after pulse.sink_input_volume_set(index, volume)
sink_input_volume_set(listed, index, volume) == [i \in DOMAIN listed |-> IF listed[i].index = index THEN [listed[i] EXCEPT !.volume = volume] ELSE listed[i]]

\* the server's sinks after pulse.sink_volume_set(index, volume)
sink_volume_set(sinks, index, volume) == [i \in DOMAIN sinks |-> IF sinks[i].index = index THEN [sinks[i] EXCEPT !.volume = volume] ELSE sinks[i]]

\* pulse.get_sink_by_name(name)
get_sink_by_name(sinks, name) == sinks[CHOOSE i \in DOMAIN sinks : sinks[i].name = name]

\* the volume is set to volume_change, not changed by it
ChangedVolumeAssigns(volume, change) == [volume EXCEPT !.value_flat = change]

\* volume after "volume.value_flat += volume_change"
ChangedVolume(volume, change) == [volume EXCEPT !.value_flat = volume.value_flat + change]

\* the server is set whatever --dry-run says
SetsServerAlways(a) == TRUE

\* "if not dry:"
SetsServer(a) == ~a.dry_run

\* --default-to-sink is not passed on to change_volume
FallsBackNever(a) == FALSE

\* "elif default_to_sink:"
FallsBack(a) == a.default_to_sink

\* every sink input is probed, corked or not
SkippedNever(sink_input) == FALSE

\* "if not sink_input.corked:" fails, the sink input is not probed
Skipped(sink_input) == sink_input.corked

\* the volume targets, which are also the names of the id files
Targets == {sinkinput_id_file(sink_input_list[i].index) : i \in DOMAIN sink_input_list} \cup {sink_id_file(sink_list[i].index) : i \in DOMAIN sink_list}

\* ------------------------------------------------------------ one invocation

\* the namespace parse_args() returns; flags is the set of the flags given
Args(volume_arg, patterns, flags) == [default_to_sink |-> "--default-to-sink" \in flags, dry_run |-> "--dry-run" \in flags, filter_active |-> "--filter-active" \in flags, input_sinks_patterns |-> patterns, notify |-> "--notify" \in flags, notify_absolute |-> "--notify-absolute" \in flags, volume_change |-> volume_arg]

Flags == {"--default-to-sink", "--filter-active", "--dry-run", "--notify", "--notify-absolute"}

\* the script is started with the command line a: parser.parse_args()
Run(a) ==
    /\ args' = a
    /\ pc' = "parse"
    /\ runs' = runs + 1
    /\ volume_change' = 0
    /\ sink_inputs_filtered' = << >>
    /\ sink_input_to_change' = None
    /\ scan' = 0
    /\ io' = NoIO
    /\ pre' = [daemon_next_id |-> daemon_next_id, files |-> files, sink_input_list |-> sink_input_list, sink_list |-> sink_list]
    /\ UNCHANGED <<server_vars, desktop_vars, applied>>

\* the first invocation
Start(a) == pc = "shell" /\ Run(a)

\* a further invocation, after the one before it has ended
Again(a) == pc = "exited" /\ runs < MaxInvocations /\ Run(a)

\* the exit(1) comes after main(args) instead of before it
ParsedNeverFails(text) == TRUE

\* float(args.volume_change) does not raise ValueError
Parsed(text) == float(text).ok

\* args.volume_change = float(args.volume_change)
ParseOk ==
    /\ pc = "parse"
    /\ Parsed(args.volume_change)
    /\ volume_change' = float(args.volume_change).value
    /\ pc' = "main"
    /\ UNCHANGED <<args, server_vars, desktop_vars, sink_inputs_filtered, sink_input_to_change, scan, io, runs, pre, applied>>

\* except ValueError: print(...); exit(1)
ParseFail ==
    /\ pc = "parse"
    /\ ~Parsed(args.volume_change)
    /\ io' = [io EXCEPT !.stdout = Append(@, "volume_change needs to be a number between -1 and 1"), !.exit_code = Some(1)]
    /\ pc' = "exited"
    /\ UNCHANGED <<args, volume_change, server_vars, desktop_vars, sink_inputs_filtered, sink_input_to_change, scan, runs, pre, applied>>

\* main without --filter-active: Pulse(), sink_inputs_filter, the first of the list
MainFirst ==
    /\ pc = "main"
    /\ ~args.filter_active
    /\ LET filtered == sink_inputs_filter(sink_input_list, args.input_sinks_patterns)
       IN  /\ sink_inputs_filtered' = filtered
           /\ sink_input_to_change' = IF filtered # << >> THEN Some(filtered[1]) ELSE None
    /\ io' = [io EXCEPT !.connected = TRUE, !.listed = @ + 1]
    /\ pc' = "change"
    /\ UNCHANGED <<args, volume_change, server_vars, desktop_vars, scan, runs, pre, applied>>

\* main with --filter-active: Pulse(), sink_inputs_filter, then sink_input_with_sound
MainFilterActive ==
    /\ pc = "main"
    /\ args.filter_active
    /\ sink_inputs_filtered' = sink_inputs_filter(sink_input_list, args.input_sinks_patterns)
    /\ io' = [io EXCEPT !.connected = TRUE, !.listed = @ + 1]
    /\ scan' = 1
    /\ pc' = "scan"
    /\ UNCHANGED <<args, volume_change, server_vars, desktop_vars, sink_input_to_change, runs, pre, applied>>

\* sink_input_with_sound: a corked sink input is passed over
ScanCorked ==
    /\ pc = "scan"
    /\ scan <= Len(sink_inputs_filtered)
    /\ Skipped(sink_inputs_filtered[scan])
    /\ scan' = scan + 1
    /\ UNCHANGED <<pc, args, volume_change, server_vars, desktop_vars, sink_inputs_filtered, sink_input_to_change, io, runs, pre, applied>>

\* sink_input_with_sound: get_peak_sample on one that is not corked
ScanProbe(peak) ==
    /\ pc = "scan"
    /\ scan <= Len(sink_inputs_filtered)
    /\ ~Skipped(sink_inputs_filtered[scan])
    /\ io' = [io EXCEPT !.probes = Append(@, [index |-> sink_inputs_filtered[scan].index, peak |-> peak])]
    /\ IF peak # 0
       THEN sink_input_to_change' = Some(sink_inputs_filtered[scan]) /\ pc' = "change" /\ scan' = scan
       ELSE sink_input_to_change' = sink_input_to_change /\ pc' = pc /\ scan' = scan + 1
    /\ UNCHANGED <<args, volume_change, server_vars, desktop_vars, sink_inputs_filtered, runs, pre, applied>>

\* sink_input_with_sound: the list is exhausted, return None
ScanEnd ==
    /\ pc = "scan"
    /\ scan > Len(sink_inputs_filtered)
    /\ sink_input_to_change' = None
    /\ pc' = "change"
    /\ UNCHANGED <<args, volume_change, server_vars, desktop_vars, sink_inputs_filtered, scan, io, runs, pre, applied>>

\* change_volume with a sink input, and the end of the script
ChangeSinkInput ==
    /\ pc = "change"
    /\ sink_input_to_change # None
    /\ LET sink_input == sink_input_to_change[1]
           volume == ChangedVolume(sink_input.volume, volume_change)
           target == sinkinput_id_file(sink_input.index)
           n == notify(args, "Sink Input Volume", target, gi, files, daemon_next_id)
       IN  /\ IF SetsServer(args)
              THEN sink_input_list' = sink_input_volume_set(sink_input_list, sink_input.index, volume)
              ELSE UNCHANGED sink_input_list
           /\ applied' = IF args.dry_run THEN applied ELSE [applied EXCEPT ![target] = @ + float(args.volume_change).value]
           /\ files' = n.files
           /\ daemon_next_id' = n.next_id
           /\ ids_used' = IdsUsedAfter(ids_used, n.shown)
           /\ io' = [io EXCEPT !.sets = IF SetsServer(args) THEN Append(@, [target |-> target, volume |-> volume]) ELSE @,
                               !.shown = @ \o n.shown, !.stderr = @ \o n.stderr, !.reads = @ \cup n.reads, !.writes = @ \cup n.writes,
                               !.exit_code = Some(0)]
    /\ pc' = "exited"
    /\ UNCHANGED <<args, volume_change, sink_list, default_sink_name, gi, sink_inputs_filtered, sink_input_to_change, scan, runs, pre>>

\* change_volume without a sink input and with --default-to-sink, and the end of the script
ChangeSink ==
    /\ pc = "change"
    /\ sink_input_to_change = None
    /\ FallsBack(args)
    /\ LET current_sink == get_sink_by_name(sink_list, default_sink_name)
           volume == ChangedVolume(current_sink.volume, volume_change)
           target == sink_id_file(current_sink.index)
           n == notify(args, "Sink Volume", target, gi, files, daemon_next_id)
       IN  /\ IF SetsServer(args)
              THEN sink_list' = sink_volume_set(sink_list, current_sink.index, volume)
              ELSE UNCHANGED sink_list
           /\ applied' = IF args.dry_run THEN applied ELSE [applied EXCEPT ![target] = @ + float(args.volume_change).value]
           /\ files' = n.files
           /\ daemon_next_id' = n.next_id
           /\ ids_used' = IdsUsedAfter(ids_used, n.shown)
           /\ io' = [io EXCEPT !.sets = IF SetsServer(args) THEN Append(@, [target |-> target, volume |-> volume]) ELSE @,
                               !.shown = @ \o n.shown, !.stderr = @ \o n.stderr, !.reads = @ \cup n.reads, !.writes = @ \cup n.writes,
                               !.exit_code = Some(0)]
    /\ pc' = "exited"
    /\ UNCHANGED <<args, volume_change, sink_input_list, default_sink_name, gi, sink_inputs_filtered, sink_input_to_change, scan, runs, pre>>

\* change_volume without a sink input and without --default-to-sink, and the end of the script
ChangeNothing ==
    /\ pc = "change"
    /\ sink_input_to_change = None
    /\ ~FallsBack(args)
    /\ io' = [io EXCEPT !.exit_code = Some(0)]
    /\ pc' = "exited"
    /\ UNCHANGED <<args, volume_change, server_vars, desktop_vars, sink_inputs_filtered, sink_input_to_change, scan, runs, pre, applied>>

\* ------------------------------------------------------------ specifications

\* all lists of at most n elements of S
RECURSIVE ListsUpTo(_, _)
ListsUpTo(S, n) == IF n = 0 THEN {<< >>} ELSE LET shorter == ListsUpTo(S, n - 1) IN shorter \cup {Append(l, x) : l \in {m \in shorter : Len(m) = n - 1}, x \in S}

\* the volume_change arguments tried: 0.1, -.05 and four that are no numbers
VolumeArgs == {<<"0", ".", "1">>, <<"-", ".", "0", "5">>, << >>, <<"-">>, <<"u", "p">>, <<"1", ".", "0", ".", "5">>}

\* the pattern lists tried by whole invocations
PatternLists == {<< >>, <<<<"a">>>>, <<<<"b">>, <<"a">>>>, <<<<".", "b">>, << >>>>}

\* three sink inputs of three clients, in the server's order
ServerSinkInputs(corked) == <<SinkInput(5, 2, 1 \in corked, 40), SinkInput(3, 1, 2 \in corked, 100), SinkInput(8, 3, 3 \in corked, 65)>>

ServerSinks == <<[index |-> 0, name |-> "hdmi", volume |-> [value_flat |-> 50]], [index |-> 1, name |-> "analog", volume |-> [value_flat |-> 30]]>>

\* what an id file can hold before the first invocation
InitialFiles == {NoFile, FileWith(<< >>), FileWith(<<"i", "d">>), FileWith(<<"0">>), FileWith(<<"3">>)}

InitShell ==
    /\ pc = "shell"
    /\ args = Args(<<"0">>, << >>, {})
    /\ volume_change = 0
    /\ runs = 0

InitProcess ==
    /\ sink_inputs_filtered = << >>
    /\ sink_input_to_change = None
    /\ scan = 0
    /\ io = NoIO
    /\ applied = [t \in Targets |-> 0]
    /\ ids_used = [t \in Targets |-> {}]
    /\ pre = [daemon_next_id |-> daemon_next_id, files |-> files, sink_input_list |-> sink_input_list, sink_list |-> sink_list]

\* the desktop: every id file holds the same initial content
InitDesktop ==
    /\ sink_list = ServerSinks
    /\ default_sink_name = "analog"
    /\ \E f \in InitialFiles : files = [p \in Targets |-> f]
    /\ daemon_next_id = 4

Step ==
    \/ ParseOk
    \/ ParseFail
    \/ MainFirst
    \/ MainFilterActive
    \/ ScanCorked
    \/ \E peak \in PeakSamples : ScanProbe(peak)
    \/ ScanEnd
    \/ ChangeSinkInput
    \/ ChangeSink
    \/ ChangeNothing

\* One invocation, with every combination of the flags, from a server whose
\* sink inputs are corked in one of five ways.
InitOnce ==
    /\ \E corked \in {{}, {1}, {2}, {2, 3}, {1, 2, 3}} : sink_input_list = ServerSinkInputs(corked)
    /\ gi \in BOOLEAN
    /\ InitDesktop
    /\ InitProcess
    /\ InitShell

NextOnce ==
    \/ \E v \in VolumeArgs, l \in PatternLists, f \in SUBSET Flags : Start(Args(v, l, f))
    \/ Step

SpecOnce == InitOnce /\ [][NextOnce]_vars

\* Invocations one after another.
SeqVolumeArgs == {<<"0", ".", "1">>, <<"-", ".", "5">>, <<"u", "p">>}

SeqPatternLists == {<< >>, <<<<"a">>>>}

\* without flags, with --dry-run, with --notify, with --notify --notify-absolute
SeqModes == {{}, {"--dry-run"}, {"--notify"}, {"--notify", "--notify-absolute"}}

SeqFlags == {m \cup s : m \in SeqModes, s \in SUBSET {"--default-to-sink", "--filter-active"}}

Init ==
    /\ sink_input_list = ServerSinkInputs({2})
    /\ gi \in BOOLEAN
    /\ InitDesktop
    /\ InitProcess
    /\ InitShell

Next ==
    \/ \E v \in SeqVolumeArgs, l \in SeqPatternLists, f \in SeqFlags : Start(Args(v, l, f))
    \/ \E v \in SeqVolumeArgs, l \in SeqPatternLists, f \in SeqFlags : Again(Args(v, l, f))
    \/ Step

Spec == Init /\ [][Next]_vars

\* The filter alone: main is entered with any list of at most MaxPatterns
\* patterns, on a server with any list of at most MaxStreams sink inputs.
StreamLists == {[i \in 1..Len(clients) |-> SinkInput(2 * (Len(clients) - i) + 1, clients[i], FALSE, 50)] : clients \in ListsUpTo(Clients, MaxStreams)}

InitFilter ==
    /\ sink_input_list \in StreamLists
    /\ gi = TRUE
    /\ InitDesktop
    /\ InitProcess
    /\ \E l \in ListsUpTo(Patterns, MaxPatterns), f \in SUBSET {"--filter-active"} : args = Args(<<"0", ".", "1">>, l, f)
    /\ volume_change = 10
    /\ pc = "main"
    /\ runs = 1

NextFilter ==
    \/ MainFirst
    \/ MainFilterActive

SpecFilter == InitFilter /\ [][NextFilter]_vars

\* -------------------------------------------------------------- the claims

\* the invocation has ended (exit code 0 or 1)
Exited == pc = "exited"

\* the invocation ran to its end: exit code 0
Ended == pc = "exited" /\ io.exit_code = Some(0)

\* the volume_change argument is a number
Numeric == float(args.volume_change).ok

IndexesOf(list) == [i \in 1..Len(list) |-> list[i].index]

\* the volume of a target on a server with these sink inputs and sinks
TargetVolume(inputs, sinks, t) ==
    IF t[1] = "sinkinput" THEN inputs[CHOOSE i \in DOMAIN inputs : inputs[i].index = t[2]].volume.value_flat
    ELSE sinks[CHOOSE i \in DOMAIN sinks : sinks[i].index = t[2]].volume.value_flat

\* the targets whose volume is not what this invocation found
ChangedTargets == {t \in Targets : TargetVolume(sink_input_list, sink_list, t) # TargetVolume(pre.sink_input_list, pre.sink_list, t)}

\* the default sink, as a target
DefaultSinkTarget == sink_id_file(pre.sink_list[CHOOSE i \in DOMAIN pre.sink_list : pre.sink_list[i].name = default_sink_name].index)

\* the target change_volume works on: the chosen sink input, else the
\* default sink with --default-to-sink, else none
ChosenTarget ==
    IF sink_input_to_change # None THEN Some(sinkinput_id_file(sink_input_to_change[1].index))
    ELSE IF args.default_to_sink THEN Some(DefaultSinkTarget)
    ELSE None

\* the patterns a client name matches, by their position in the list
MatchedBy(sink_input) == {p \in 1..Len(args.input_sinks_patterns) : re_match(args.input_sinks_patterns[p], pulse_client_name(sink_input))}

FirstPattern(sink_input) == CHOOSE p \in MatchedBy(sink_input) : \A q \in MatchedBy(sink_input) : p <= q

ServerPosition(sink_input) == CHOOSE i \in DOMAIN sink_input_list : sink_input_list[i] = sink_input

\* main has the result of sink_inputs_filter
Filtered == pc \in {"scan", "change", "exited"} /\ io.listed > 0

\* C1: sink_inputs_filter returns the sink inputs in pattern-priority order:
\* each sink input of the server that matches a pattern appears exactly
\* once, one that matches none does not appear, and the list is ordered by
\* the first pattern matched and, within a pattern, by the server's order.
C1_FilterPriorityOrder ==
    Filtered =>
        /\ \A i \in DOMAIN sink_input_list :
              Cardinality({j \in DOMAIN sink_inputs_filtered : sink_inputs_filtered[j] = sink_input_list[i]}) = IF MatchedBy(sink_input_list[i]) # {} THEN 1 ELSE 0
        /\ \A j \in DOMAIN sink_inputs_filtered : \E i \in DOMAIN sink_input_list : sink_inputs_filtered[j] = sink_input_list[i]
        /\ \A j, k \in DOMAIN sink_inputs_filtered :
              j < k => \/ FirstPattern(sink_inputs_filtered[j]) < FirstPattern(sink_inputs_filtered[k])
                       \/ /\ FirstPattern(sink_inputs_filtered[j]) = FirstPattern(sink_inputs_filtered[k])
                          /\ ServerPosition(sink_inputs_filtered[j]) < ServerPosition(sink_inputs_filtered[k])

\* C1 witness: the filter reordered the server's list, dropped a sink input
\* and kept one that matches two patterns.
C1_Witness ==
    /\ Filtered
    /\ Len(sink_inputs_filtered) >= 2
    /\ Len(sink_inputs_filtered) < Len(sink_input_list)
    /\ \E j \in DOMAIN sink_inputs_filtered : j < Len(sink_inputs_filtered) /\ ServerPosition(sink_inputs_filtered[j]) > ServerPosition(sink_inputs_filtered[j + 1])
    /\ \E j \in DOMAIN sink_inputs_filtered : Cardinality(MatchedBy(sink_inputs_filtered[j])) >= 2

\* the volumes the server started with
InitialVolume(t) == TargetVolume(ServerSinkInputs({}), ServerSinks, t)

\* C2: the volume the server holds for a target is its initial volume plus
\* the sum of the volume_change arguments of the invocations without
\* --dry-run that chose it; nothing is clamped.
C2_VolumeIsInitialPlusSum ==
    (pc \in {"shell", "exited"}) => \A t \in Targets : TargetVolume(sink_input_list, sink_list, t) = InitialVolume(t) + applied[t]

\* C2 witness: two invocations raised the same sink input by 0.1 each, from
\* 1.0 to 1.2.
C2_Witness ==
    /\ Exited
    /\ runs = 2
    /\ applied[sinkinput_id_file(3)] = 20
    /\ TargetVolume(sink_input_list, sink_list, sinkinput_id_file(3)) = 120

\* the sink inputs among the first n of the filtered list that are not corked
NotCorked(n) == SelectSeq(SubSeq(sink_inputs_filtered, 1, n), LAMBDA sink_input : ~sink_input.corked)

ProbedIndexes == [i \in 1..Len(io.probes) |-> io.probes[i].index]

\* C3: with --filter-active the sink input chosen is the first of the
\* filtered list that is not corked and whose probe is not zero; the probes
\* made are those of the sink inputs not corked up to it, in order, none
\* after it; with no such sink input none is chosen and every sink input not
\* corked was probed; only the chosen sink input's volume is changed.
C3_FirstAudibleIsChosen ==
    (pc \in {"change", "exited"} /\ Numeric /\ args.filter_active) =>
        /\ IF sink_input_to_change = None
           THEN /\ ProbedIndexes = IndexesOf(NotCorked(Len(sink_inputs_filtered)))
                /\ \A i \in DOMAIN io.probes : io.probes[i].peak = 0
           ELSE \E j \in DOMAIN sink_inputs_filtered :
                   /\ sink_inputs_filtered[j] = sink_input_to_change[1]
                   /\ ~sink_inputs_filtered[j].corked
                   /\ ProbedIndexes = IndexesOf(NotCorked(j))
                   /\ \A i \in DOMAIN io.probes : (io.probes[i].peak # 0) <=> (i = Len(io.probes))
        /\ sink_input_to_change # None => ChangedTargets \subseteq {sinkinput_id_file(sink_input_to_change[1].index)}

\* C3 witness: the first of three filtered sink inputs is corked, the second
\* is audible and had its volume changed, the third was not probed.
C3_Witness ==
    /\ Ended
    /\ args.filter_active
    /\ Len(sink_inputs_filtered) = 3
    /\ sink_inputs_filtered[1].corked
    /\ sink_input_to_change = Some(sink_inputs_filtered[2])
    /\ Len(io.probes) = 1
    /\ ChangedTargets = {sinkinput_id_file(sink_inputs_filtered[2].index)}

\* C4 as claimed: when no sink input is chosen and --default-to-sink is
\* given the default sink's volume is changed by volume_change, and when a
\* sink input is chosen no sink's volume is changed.
C4_FallbackChangesSink ==
    Ended =>
        /\ (sink_input_to_change = None /\ args.default_to_sink) =>
              TargetVolume(sink_input_list, sink_list, DefaultSinkTarget) = TargetVolume(pre.sink_input_list, pre.sink_list, DefaultSinkTarget) + float(args.volume_change).value
        /\ sink_input_to_change # None => sink_list = pre.sink_list

\* C4 amended: the same, for the change of the default sink's volume only
\* without --dry-run.
C4_FallbackChangesSinkUnlessDry ==
    Ended =>
        /\ (sink_input_to_change = None /\ args.default_to_sink /\ ~args.dry_run) =>
              TargetVolume(sink_input_list, sink_list, DefaultSinkTarget) = TargetVolume(pre.sink_input_list, pre.sink_list, DefaultSinkTarget) + float(args.volume_change).value
        /\ sink_input_to_change # None => sink_list = pre.sink_list

\* C4 witness: no sink input was chosen and the default sink, which is not
\* the first sink, was lowered by 0.05.
C4_Witness ==
    /\ Ended
    /\ sink_input_to_change = None
    /\ args.default_to_sink
    /\ ChangedTargets = {sink_id_file(1)}
    /\ TargetVolume(sink_input_list, sink_list, sink_id_file(1)) = 25

\* C5: with a volume_change that is no number the invocation goes from the
\* parsing of its arguments straight to exit code 1: no connection, no list
\* of sink inputs, no probe, no volume set, no notification, no id file
\* touched.
C5_NonNumericExitsFirst ==
    (pc # "shell" /\ ~Numeric) =>
        /\ pc \in {"parse", "exited"}
        /\ Exited => io.exit_code = Some(1)
        /\ ~io.connected /\ io.listed = 0 /\ io.probes = << >> /\ io.sets = << >> /\ io.shown = << >>
        /\ io.reads = {} /\ io.writes = {}
        /\ sink_input_list = pre.sink_input_list /\ sink_list = pre.sink_list /\ files = pre.files

\* C5 witness: "1.0.5" with --notify and --default-to-sink ended with exit
\* code 1.
C5_Witness ==
    /\ Exited
    /\ args.volume_change = <<"1", ".", "0", ".", "5">>
    /\ args.notify /\ args.default_to_sink
    /\ io.exit_code = Some(1)

\* the warning of a notification library that cannot be imported is on stderr
Warned == \E i \in DOMAIN io.stderr : io.stderr[i] = "notification went wrong"

\* the malformed id file is reported on stderr
Reported == \E i \in DOMAIN io.stderr : io.stderr[i] = "notification id file malformated"

\* the sink input main chooses, from the filtered list and the probes made
SelectionFrom(filtered, probes, filter_active) ==
    IF ~filter_active THEN (IF filtered # << >> THEN Some(filtered[1]) ELSE None)
    ELSE IF probes # << >> /\ probes[Len(probes)].peak # 0
         THEN Some(filtered[CHOOSE j \in DOMAIN filtered : filtered[j].index = probes[Len(probes)].index])
         ELSE None

\* What an invocation that ran to its end did about volumes, as a function
\* of what it found, its patterns, --filter-active, --default-to-sink,
\* --dry-run and volume_change: neither --notify nor the notification library
\* takes part.
VolumesAsWithoutNotify ==
    /\ sink_input_to_change = SelectionFrom(sink_inputs_filtered, io.probes, args.filter_active)
    /\ \A t \in Targets :
          TargetVolume(sink_input_list, sink_list, t) =
              TargetVolume(pre.sink_input_list, pre.sink_list, t) + (IF ChosenTarget = Some(t) /\ ~args.dry_run THEN float(args.volume_change).value ELSE 0)

\* the id files and the notification daemon are as the invocation found them
DesktopUntouched == io.reads = {} /\ io.writes = {} /\ files = pre.files /\ io.shown = << >> /\ daemon_next_id = pre.daemon_next_id

\* C6 as claimed: without the notification library an invocation with
\* --notify prints a warning, chooses and changes what it would without
\* --notify, and neither reads nor writes an id file.
C6_MissingLibraryWarns ==
    Ended =>
        /\ VolumesAsWithoutNotify
        /\ (args.notify /\ ~gi) => (Warned /\ DesktopUntouched)

\* C6 amended: the warning is printed when a sink input or the sink is
\* there to change; without one notify is not called and nothing is printed.
C6_MissingLibraryWarnsWhenNotifying ==
    Ended =>
        /\ VolumesAsWithoutNotify
        /\ (args.notify /\ ~gi) => ((Warned <=> ChosenTarget # None) /\ DesktopUntouched)

\* C6 witness: without the library, --notify --notify-absolute on a chosen
\* sink input with a malformed id file: warned, volume changed, file as it was.
C6_Witness ==
    /\ Ended
    /\ args.notify /\ args.notify_absolute /\ ~gi
    /\ sink_input_to_change # None
    /\ Warned
    /\ ChangedTargets = {sinkinput_id_file(sink_input_to_change[1].index)}
    /\ Malformed(files[sinkinput_id_file(sink_input_to_change[1].index)])

\* notify was called with the id file of the chosen target
NotifiedWithFile == Ended /\ args.notify /\ args.notify_absolute /\ ChosenTarget # None

\* the text of the file is an id the program takes over: an integer other than 0
HoldsId(file) == file.exists /\ int(file.text).ok /\ int(file.text).value # 0

C8_MalformedFileReplaced ==
    (NotifiedWithFile /\ Malformed(pre.files[ChosenTarget[1]])) =>
        LET p == ChosenTarget[1]
        IN  /\ Reported
            /\ Len(io.shown) = 1 /\ io.shown[1].id = pre.daemon_next_id
            /\ files[p] = FileWith(str(io.shown[1].id))
            /\ notification_id_of(files[p]) = Some(io.shown[1].id)

\* C8 amended: the same, when the notification library can be imported.
C8_MalformedFileReplacedWithLibrary ==
    (NotifiedWithFile /\ gi /\ Malformed(pre.files[ChosenTarget[1]])) =>
        LET p == ChosenTarget[1]
        IN  /\ Reported
            /\ Len(io.shown) = 1 /\ io.shown[1].id = pre.daemon_next_id
            /\ files[p] = FileWith(str(io.shown[1].id))
            /\ notification_id_of(files[p]) = Some(io.shown[1].id)

\* C8 witness: the sink's id file held "id"; it was reported and now holds "4".
C8_Witness ==
    /\ NotifiedWithFile /\ gi
    /\ sink_input_to_change = None
    /\ pre.files[ChosenTarget[1]] = FileWith(<<"i", "d">>)
    /\ Reported
    /\ files[ChosenTarget[1]] = FileWith(<<"4">>)

\* C9: with --dry-run no volume is set: no call of a volume setter, and the
\* sink inputs and sinks of the server stay as the invocation found them.
C9_DryRunSetsNothing ==
    (pc # "shell" /\ args.dry_run) => (io.sets = << >> /\ sink_input_list = pre.sink_input_list /\ sink_list = pre.sink_list)

\* C9 witness: a dry run that chose a sink input and showed its notification.
C9_Witness ==
    /\ Ended
    /\ args.dry_run /\ args.filter_active /\ args.default_to_sink
    /\ sink_input_to_change # None
    /\ io.shown # << >>
    /\ io.writes # {}

\* C10: an invocation sets at most one volume, that of the chosen sink input
\* or else, with --default-to-sink, that of the default sink, and no other
\* volume differs from what it found; with neither, nothing is set and no
\* notification is shown.
C10_AtMostOneTarget ==
    pc # "shell" =>
        /\ Len(io.sets) <= 1
        /\ \A i \in DOMAIN io.sets : ChosenTarget = Some(io.sets[i].target)
        /\ ChangedTargets \subseteq {t \in Targets : ChosenTarget = Some(t)}
        /\ (Ended /\ ChosenTarget = None) => (io.sets = << >> /\ ChangedTargets = {} /\ io.shown = << >> /\ io.stderr = << >>)

\* C10 witness: with --default-to-sink and a chosen sink input only that
\* sink input's volume differs.
C10_Witness ==
    /\ Ended
    /\ args.default_to_sink /\ ~args.dry_run
    /\ sink_input_to_change # None
    /\ Len(io.sets) = 1
    /\ ChangedTargets = {sinkinput_id_file(sink_input_to_change[1].index)}

=============================================================================
